---- MODULE Spec2Model ----
(***************************************************************************)
(* Model of hello.py: a module that imports LayoutPDFReader, defines       *)
(* read_pdf and greetings, calls read_pdf("") at module level and prints   *)
(* the result.  The module is loaded either as a script or by an importer, *)
(* which may afterwards call the two functions.                            *)
(*                                                                         *)
(* Python str values that the program only passes around are TLA+ strings; *)
(* the strings greetings builds are sequences of characters, so that the   *)
(* f-string is a real concatenation.                                       *)
(***************************************************************************)
EXTENDS Integers, Sequences, FiniteSets

VARIABLES
    mode,       \* how the module is loaded: "script" (__main__) or "import"
    pc,         \* module-level position: "l1","l3","l10","l12","l13","done","failed"
    globals,    \* module namespace: bound name -> value
    frame,      \* the active read_pdf frame, NoFrame when none
    err,        \* line of the exception that ended the load, "none" otherwise
    output,     \* standard output, a sequence of lines
    ctorLog,    \* argument tuples of the LayoutPDFReader(...) calls made
    readLog,    \* argument tuples of the pdf_reader.read_pdf(...) calls made
    callLog,    \* the path of every read_pdf call entered, in order
    trace       \* what the importer has observed of its own calls

vars == <<mode, pc, globals, frame, err, output, ctorLog, readLog, callLog, trace>>

---------------------------------------------------------------------------
(* Bounds *)

MaxNameLen == 1
MaxCalls == 3

Alphabet == {"a", "!"}

World == <<"W", "o", "r", "l", "d">>

StrUpTo(n) == UNION {[1..k -> Alphabet] : k \in 0..n}

Names == StrUpTo(MaxNameLen) \cup {World}

Paths == {"", "/tmp/any.pdf", "x"}

---------------------------------------------------------------------------
(* Values *)

llmsherpa_api_url ==
    "https://readers.llmsherpa.com/api/document/developer/parseDocument?renderFormat=all"

Success == "success"

NoFrame == [caller |-> "none", pc |-> "none", locals |-> <<>>, loads |-> {}]

\* A call read_pdf(path): a fresh frame whose only local is the parameter.
\* loads collects the names of the locals the executed statements have read.
NewFrame(caller, path) ==
    [caller |-> caller, pc |-> "l4", locals |-> [n \in {"path"} |-> path],
     loads |-> {}]

Bind(ns, name, value) ==
    [n \in DOMAIN ns \cup {name} |-> IF n = name THEN value ELSE ns[n]]

---------------------------------------------------------------------------
(* greetings: f"Hello, {name}!" *)

HelloLit == <<"H", "e", "l", "l", "o", ",", " ">>

BangLit == <<"!">>

FormatValue(v) == v

RECURSIVE BuildString(_)
BuildString(parts) ==
    IF parts = <<>> THEN <<>>
    ELSE Head(parts) \o BuildString(Tail(parts))

greetings_NoBang(name) == BuildString(<<HelloLit, FormatValue(name)>>)

greetings(name) == BuildString(<<HelloLit, FormatValue(name), BangLit>>)

---------------------------------------------------------------------------
(* Module load, lines 1..13 *)

Init ==
    /\ mode \in {"script", "import"}
    /\ pc = "l1"
    /\ globals = <<>>
    /\ frame = NoFrame
    /\ err = "none"
    /\ output = <<>>
    /\ ctorLog = <<>>
    /\ readLog = <<>>
    /\ callLog = <<>>
    /\ trace = <<>>

\* line 1: from llmsherpa.readers import LayoutPDFReader
ImportOk ==
    /\ pc = "l1"
    /\ globals' = Bind(globals, "LayoutPDFReader", "<class LayoutPDFReader>")
    /\ pc' = "l3"
    /\ UNCHANGED <<mode, frame, err, output, ctorLog, readLog, callLog, trace>>

\* line 1 when the package cannot be imported: nothing catches the ImportError
ImportFails ==
    /\ pc = "l1"
    /\ pc' = "failed"
    /\ err' = "l1"
    /\ UNCHANGED <<mode, globals, frame, output, ctorLog, readLog, callLog, trace>>

\* line 3: def read_pdf
DefReadPdf ==
    /\ pc = "l3"
    /\ globals' = Bind(globals, "read_pdf", "<function read_pdf>")
    /\ pc' = "l10"
    /\ UNCHANGED <<mode, frame, err, output, ctorLog, readLog, callLog, trace>>

\* line 10: def greetings
DefGreetings ==
    /\ pc = "l10"
    /\ globals' = Bind(globals, "greetings", "<function greetings>")
    /\ pc' = "l12"
    /\ UNCHANGED <<mode, frame, err, output, ctorLog, readLog, callLog, trace>>

ModuleCallArg == ""

\* the same statement under an `if __name__ == "__main__":` guard
ModuleCall_Guarded ==
    /\ pc = "l12"
    /\ frame.caller = "none"
    /\ "read_pdf" \in DOMAIN globals
    /\ IF mode = "script"
       THEN /\ frame' = NewFrame("module", ModuleCallArg)
            /\ callLog' = Append(callLog, ModuleCallArg)
            /\ pc' = pc
       ELSE /\ pc' = "done"
            /\ UNCHANGED <<frame, callLog>>
    /\ UNCHANGED <<mode, globals, err, output, ctorLog, readLog, trace>>

\* line 12, the call: res = read_pdf("") enters read_pdf
ModuleCall ==
    /\ pc = "l12"
    /\ frame.caller = "none"
    /\ "read_pdf" \in DOMAIN globals
    /\ frame' = NewFrame("module", ModuleCallArg)
    /\ callLog' = Append(callLog, ModuleCallArg)
    /\ UNCHANGED <<mode, pc, globals, err, output, ctorLog, readLog, trace>>

PrintRes_Twice ==
    /\ pc = "l13"
    /\ output' = output \o <<globals["res"], globals["res"]>>
    /\ pc' = "done"
    /\ UNCHANGED <<mode, globals, frame, err, ctorLog, readLog, callLog, trace>>

\* line 13: print(res)
PrintRes ==
    /\ pc = "l13"
    /\ output' = Append(output, globals["res"])
    /\ pc' = "done"
    /\ UNCHANGED <<mode, globals, frame, err, ctorLog, readLog, callLog, trace>>

---------------------------------------------------------------------------
(* read_pdf, lines 3..8; control leaves the frame by return or by exception *)

\* A return: to the assignment of line 12, or to the importer's call site.
Return(value) ==
    /\ frame' = NoFrame
    /\ IF frame.caller = "module"
       THEN /\ globals' = Bind(globals, "res", value)
            /\ pc' = "l13"
            /\ UNCHANGED trace
       ELSE /\ trace' = Append(trace, [fn |-> "read_pdf",
                                       arg |-> frame.locals["path"],
                                       outcome |-> "return",
                                       value |-> value])
            /\ UNCHANGED <<globals, pc>>
    /\ UNCHANGED err

\* an exception handler around the constructor that lets the call go on
Unwind_Swallowed(site) ==
    /\ frame' = [frame EXCEPT !.pc = "l8"]
    /\ UNCHANGED <<globals, pc, trace, err>>

\* An exception raised at `site`: hello.py has no try statement, so the frame
\* is dropped and the exception reaches the caller; at module level it ends
\* the load before line 12 assigns res.
Unwind(site) ==
    /\ frame' = NoFrame
    /\ IF frame.caller = "module"
       THEN /\ pc' = "failed"
            /\ err' = site
            /\ UNCHANGED trace
       ELSE /\ trace' = Append(trace, [fn |-> "read_pdf",
                                       arg |-> frame.locals["path"],
                                       outcome |-> "raise",
                                       value |-> site])
            /\ UNCHANGED <<pc, err>>
    /\ UNCHANGED globals

\* line 4 when the assignment raises
Line4_Raises ==
    /\ frame.pc = "l4"
    /\ Unwind("l4")
    /\ UNCHANGED <<mode, output, ctorLog, readLog, callLog>>

\* line 4: llmsherpa_api_url = "https://..."
Line4 ==
    /\ frame.pc = "l4"
    /\ frame' = [frame EXCEPT !.pc = "l6",
                 !.locals = Bind(@, "llmsherpa_api_url", llmsherpa_api_url)]
    /\ UNCHANGED <<mode, pc, globals, err, output, ctorLog, readLog, callLog, trace>>

CtorArgNames_Path == <<"path">>

\* line 6: the locals named in the argument list of LayoutPDFReader(...)
CtorArgNames == <<"llmsherpa_api_url">>

CtorArgs(f) == [i \in 1..Len(CtorArgNames) |-> f.locals[CtorArgNames[i]]]

CtorLoads == {CtorArgNames[i] : i \in 1..Len(CtorArgNames)}

\* the reader object: it keeps the URL it was given
Reader(args) == [cls |-> "LayoutPDFReader", parser_api_url |-> args[1]]

\* line 6 followed by an uncommented line 7: doc = pdf_reader.read_pdf(path)
Line6_Returns_ThenReads ==
    /\ frame.pc = "l6"
    /\ "LayoutPDFReader" \in DOMAIN globals
    /\ ctorLog' = Append(ctorLog, CtorArgs(frame))
    /\ readLog' = Append(readLog, <<frame.locals["path"]>>)
    /\ frame' = [frame EXCEPT !.pc = "l8",
                 !.loads = @ \cup CtorLoads \cup {"path"},
                 !.locals = Bind(@, "pdf_reader", Reader(CtorArgs(frame)))]
    /\ UNCHANGED <<mode, pc, globals, err, output, callLog, trace>>

\* line 6: pdf_reader = LayoutPDFReader(llmsherpa_api_url), the constructor
\* returns; line 7 is a comment, so control is then at line 8
Line6_Returns ==
    /\ frame.pc = "l6"
    /\ "LayoutPDFReader" \in DOMAIN globals
    /\ ctorLog' = Append(ctorLog, CtorArgs(frame))
    /\ frame' = [frame EXCEPT !.pc = "l8",
                 !.loads = @ \cup CtorLoads,
                 !.locals = Bind(@, "pdf_reader", Reader(CtorArgs(frame)))]
    /\ UNCHANGED <<mode, pc, globals, err, output, readLog, callLog, trace>>

\* line 6, the constructor raises: pdf_reader is never bound
Line6_Raises ==
    /\ frame.pc = "l6"
    /\ "LayoutPDFReader" \in DOMAIN globals
    /\ ctorLog' = Append(ctorLog, CtorArgs(frame))
    /\ Unwind("l6")
    /\ UNCHANGED <<mode, output, readLog, callLog>>

ReturnValue_EchoPath(f) == f.locals["path"]

\* line 8: the operand of the return statement
ReturnValue(f) == Success

\* line 8: return "success"
Line8 ==
    /\ frame.pc = "l8"
    /\ Return(ReturnValue(frame))
    /\ UNCHANGED <<mode, output, ctorLog, readLog, callLog>>

---------------------------------------------------------------------------
(* The importer: once `import hello` has returned it may call the functions *)

CanCall ==
    /\ mode = "import"
    /\ pc = "done"
    /\ frame.caller = "none"
    /\ Len(trace) < MaxCalls

CallReadPdf(path) ==
    /\ CanCall
    /\ frame' = NewFrame("importer", path)
    /\ callLog' = Append(callLog, path)
    /\ UNCHANGED <<mode, pc, globals, err, output, ctorLog, readLog, trace>>

\* a greetings that also prints what it built
CallGreetings_Prints(name) ==
    /\ CanCall
    /\ output' = Append(output, greetings(name))
    /\ trace' = Append(trace, [fn |-> "greetings", arg |-> name,
                               outcome |-> "return", value |-> greetings(name)])
    /\ UNCHANGED <<mode, pc, globals, frame, err, ctorLog, readLog, callLog>>

\* lines 10..11: greetings(name) is the single statement return f"Hello, {name}!"
CallGreetings(name) ==
    /\ CanCall
    /\ trace' = Append(trace, [fn |-> "greetings", arg |-> name,
                               outcome |-> "return", value |-> greetings(name)])
    /\ UNCHANGED <<mode, pc, globals, frame, err, output, ctorLog, readLog, callLog>>

---------------------------------------------------------------------------

\* the statements the interpreter executes on its own, one after the other
Run ==
    \/ ImportOk
    \/ ImportFails
    \/ DefReadPdf
    \/ DefGreetings
    \/ ModuleCall
    \/ Line4
    \/ Line6_Returns
    \/ Line6_Raises
    \/ Line8
    \/ PrintRes

Next ==
    \/ ImportOk
    \/ ImportFails
    \/ DefReadPdf
    \/ DefGreetings
    \/ ModuleCall
    \/ Line4
    \/ Line6_Returns
    \/ Line6_Raises
    \/ Line8
    \/ PrintRes
    \/ \E path \in Paths : CallReadPdf(path)
    \/ \E name \in Names : CallGreetings(name)

Spec == Init /\ [][Next]_vars

\* The interpreter is single-threaded and runs the statement it is at.
FairSpec == Spec /\ WF_vars(Run)

---------------------------------------------------------------------------
(* Properties *)

Calls == 1..Len(trace)

IsReadPdf(i) == trace[i].fn = "read_pdf"

IsGreetings(i) == trace[i].fn = "greetings"

Returned(i) == trace[i].outcome = "return"

Raised(i) == trace[i].outcome = "raise"

Last(s) == s[Len(s)]

\* C1: every call read_pdf(p) that returns, at module level or from the
\* importer and whatever p is, returns exactly the literal "success".
C1_ReadPdfReturnsSuccess ==
    /\ \A i \in Calls : IsReadPdf(i) /\ Returned(i) => trace[i].value = "success"
    /\ "res" \in DOMAIN globals => globals["res"] = "success"

C1_Witness ==
    \E i, j \in Calls :
        /\ IsReadPdf(i) /\ Returned(i) /\ trace[i].arg = ""
        /\ IsReadPdf(j) /\ Returned(j) /\ trace[j].arg = "/tmp/any.pdf"

\* C2: every call greetings(s) returns "Hello, " followed by s followed by
\* "!", nothing more and nothing less; greetings("World") is "Hello, World!"
\* and greetings("") is "Hello, !".
C2_GreetingsConcatenation ==
    \A i \in Calls : IsGreetings(i) =>
        LET s == trace[i].arg
            v == trace[i].value
        IN  /\ Returned(i)
            /\ Len(v) = 7 + Len(s) + 1
            /\ SubSeq(v, 1, 7) = <<"H", "e", "l", "l", "o", ",", " ">>
            /\ SubSeq(v, 8, 7 + Len(s)) = s
            /\ v[Len(v)] = "!"
            /\ s = <<"W", "o", "r", "l", "d">> =>
                 v = <<"H", "e", "l", "l", "o", ",", " ",
                       "W", "o", "r", "l", "d", "!">>
            /\ s = <<>> => v = <<"H", "e", "l", "l", "o", ",", " ", "!">>

C2_Witness ==
    \E i, j \in Calls :
        /\ IsGreetings(i) /\ trace[i].arg = <<"W", "o", "r", "l", "d">>
        /\ IsGreetings(j) /\ trace[j].arg = <<>>

C4_OnlyConstructorCanFail ==
    /\ [](/\ \A i \in Calls : IsReadPdf(i) /\ Raised(i) => trace[i].value = "l6"
          /\ err /= "none" /\ callLog /= <<>> => err = "l6"
          /\ frame.pc = "l8" <=> "pdf_reader" \in DOMAIN frame.locals)
    /\ [][frame.pc = "l8" =>
            /\ frame'.caller = "none"
            /\ err' = "none"
            /\ IF frame.caller = "module"
               THEN pc' = "l13" /\ "res" \in DOMAIN globals'
               ELSE Len(trace') = Len(trace) + 1
                    /\ trace'[Len(trace')].outcome = "return"]_vars

C4_Witness ==
    \E i, j \in Calls :
        /\ IsReadPdf(i) /\ Raised(i)
        /\ IsReadPdf(j) /\ Returned(j)

\* C4, as stated: no error state is reachable from a call of read_pdf.
C4_NoErrorReachable ==
    /\ err /= "l6"
    /\ \A i \in Calls : IsReadPdf(i) => ~Raised(i)

\* the constructor was called in this step and gave no reader back
ConstructorFailed ==
    /\ Len(ctorLog') = Len(ctorLog) + 1
    /\ "pdf_reader" \notin DOMAIN frame'.locals

\* C5: a constructor failure inside read_pdf is caught nowhere.  The call is
\* abandoned without returning "success"; at module level res is never
\* assigned, line 13 is never reached, nothing is written to standard output
\* and the load ends in the failed state, where nothing more happens.  Once
\* the import has succeeded this is the only way the load can fail.
C5_ConstructorFailurePropagates ==
    /\ [][ConstructorFailed =>
            /\ frame'.caller = "none"
            /\ IF frame.caller = "module"
               THEN pc' = "failed" /\ err' = "l6"
               ELSE /\ Len(trace') = Len(trace) + 1
                    /\ trace'[Len(trace')].outcome = "raise"
                    /\ trace'[Len(trace')].value /= "success"]_vars
    /\ [](err = "l6" =>
            /\ pc = "failed"
            /\ "res" \notin DOMAIN globals
            /\ output = <<>>
            /\ ~ENABLED Next)
    /\ [](pc = "failed" <=> err /= "none")
    /\ [](pc = "failed" /\ "LayoutPDFReader" \in DOMAIN globals => err = "l6")

C5_Witness ==
    pc = "failed" /\ err = "l6" /\ ctorLog /= <<>>

\* C6: every call of read_pdf makes exactly one call of the reader
\* constructor, always with the one fixed URL, and no call of the reader's
\* read operation.
C6_OneConstructionNoRead ==
    /\ Len(ctorLog) = Len(callLog) - (IF frame.pc \in {"l4", "l6"} THEN 1 ELSE 0)
    /\ \A i \in 1..Len(ctorLog) : ctorLog[i] =
         <<"https://readers.llmsherpa.com/api/document/developer/parseDocument?renderFormat=all">>
    /\ readLog = <<>>

C6_Witness ==
    /\ frame.caller = "none"
    /\ Len(callLog) = MaxCalls + 1
    /\ Len(ctorLog) = MaxCalls + 1

\* C7, as amended: read_pdf never reads its path argument.  The constructor
\* is passed the local llmsherpa_api_url alone, so the reader is bound to the
\* fixed URL whatever path is.
C7_PathNeverUsed ==
    /\ "path" \notin frame.loads
    /\ frame.pc = "l8" =>
         /\ frame.loads = {"llmsherpa_api_url"}
         /\ Last(ctorLog) /= <<frame.locals["path"]>>
         /\ frame.locals["pdf_reader"].parser_api_url /= frame.locals["path"]

C7_Witness ==
    frame.pc = "l8" /\ frame.locals["path"] = "/tmp/any.pdf"

\* C7, as stated: path is what read_pdf passes to the reader constructor.
C7_PathPassedToConstructor ==
    frame.pc = "l8" =>
        /\ "path" \in frame.loads
        /\ Last(ctorLog) = <<frame.locals["path"]>>

\* the importer's call of greetings returned in this step
GreetingsStep ==
    /\ Len(trace') = Len(trace) + 1
    /\ trace'[Len(trace')].fn = "greetings"

\* C8: greetings is pure and total.  A call of it returns, writes nothing to
\* standard output, constructs no client and changes nothing but the
\* importer's own record of the call; and what either function returns for
\* an argument is the same wherever the call stands among the other calls.
C8_GreetingsPure ==
    /\ [][GreetingsStep =>
            UNCHANGED <<mode, pc, globals, frame, err, output,
                        ctorLog, readLog, callLog>>]_vars
    /\ [](\A i \in Calls : IsGreetings(i) => Returned(i))
    /\ [](\A i, j \in Calls :
            /\ trace[i].fn = trace[j].fn
            /\ trace[i].arg = trace[j].arg
            /\ Returned(i) /\ Returned(j)
            => trace[i].value = trace[j].value)

C8_Witness ==
    /\ Len(trace) = 3
    /\ IsGreetings(1) /\ IsReadPdf(2) /\ Returned(2) /\ IsGreetings(3)
    /\ trace[1].arg = trace[3].arg
    /\ output = <<"success">>

====
